---------------------------- MODULE Spec2Model ----------------------------
(***************************************************************************)
(* A model of the Fetchable trait of fetch_file (src/src/lib.rs): the      *)
(* three codecs (bincode, serde_json, ron), the three load operations,     *)
(* save and fetch_or_default, run against one path of a file system.       *)
(*                                                                         *)
(* A value of the implementing type T is the Config of the doc example     *)
(* (two usize settings); `ser` is FALSE for a value whose Serialize        *)
(* implementation reports an error, which is how an encode failure         *)
(* enters any of the three serializers.                                    *)
(*                                                                         *)
(* Bytes are numbers 0..255.  The binary layout is one byte per field      *)
(* (the width of usize reduced to 8 bits); the text layouts are the        *)
(* ASCII characters of  {a:<digits>,b:<digits>}  for JSON and of           *)
(* (a:<digits>,b:<digits>,)  for RON, where a and b stand for the keys     *)
(* setting1 and setting2.                                                  *)
(***************************************************************************)
EXTENDS Integers, Sequences, FiniteSets, TLC

VARIABLES
    fs,     \* the path on the file system
    th,     \* per thread: the call in progress, its locals and its result
    clean,  \* history: the (codec, value) of the last save that returned Ok
            \*          with no later write to the path, or NoSave
    raced   \* history: a create/truncate ran while another save was between
            \*          its own create and the end of its write_all

vars == <<fs, th, clean, raced>>

\* Largest value of setting1 the model draws.
MaxSetting == 1

\* The number of bytes a write call that is cut short accepts.
BlockSize == 2

Threads == {"a", "b"}
Codecs == {"bin", "json", "ron"}

\* ---------------------------------------------------------------- values

Config(s1, s2) == [setting1 |-> s1, setting2 |-> s2, ser |-> TRUE]

\* impl Default for Config
Default == Config(0, 5)

\* A value whose Serialize implementation fails.
Unserializable == [setting1 |-> 0, setting2 |-> 5, ser |-> FALSE]

Values ==
    {Config(a, b) : a \in 0..MaxSetting, b \in {5, 12}} \cup {Unserializable}

\* ---------------------------------------------------------------- codecs

RECURSIVE Digits(_)
Digits(n) == IF n < 10 THEN <<48 + n>> ELSE Digits(n \div 10) \o <<48 + (n % 10)>>

IsDigit(b) == b >= 48 /\ b <= 57

RECURSIVE DigitRun(_, _)
\* The number of digit characters of s from index i on.
DigitRun(s, i) ==
    IF i <= Len(s) /\ IsDigit(s[i]) THEN 1 + DigitRun(s, i + 1) ELSE 0

RECURSIVE Number(_)
Number(d) ==
    IF Len(d) = 0 THEN 0
    ELSE 10 * Number(SubSeq(d, 1, Len(d) - 1)) + (d[Len(d)] - 48)

EncOk(bytes) == [ok |-> TRUE, panic |-> FALSE, bytes |-> bytes]
EncErr == [ok |-> FALSE, panic |-> FALSE, bytes |-> <<>>]
EncPanic == [ok |-> FALSE, panic |-> TRUE, bytes |-> <<>>]

\* bincode::serialize(self)?
serialize_bin(v) ==
    IF v.ser THEN EncOk(<<v.setting1 % 256, v.setting2 % 256>>) ELSE EncErr

TextFields(v) ==
    <<97, 58>> \o Digits(v.setting1) \o <<44, 98, 58>> \o Digits(v.setting2)

\* ron::ser::to_string_pretty(..).expect("Failed pretty string.")
serialize_ron(v) ==
    IF v.ser THEN EncOk(<<40>> \o TextFields(v) \o <<44, 41>>) ELSE EncPanic

\* serde_json::ser::to_string_pretty(..).expect("Failed pretty string.")
serialize_json(v) ==
    IF v.ser THEN EncOk(<<123>> \o TextFields(v) \o <<125>>) ELSE EncPanic

\* The implementor's serialize_l picks one of the three.
serialize_l(c, v) ==
    CASE c = "bin" -> serialize_bin(v)
      [] c = "ron" -> serialize_ron(v)
      [] c = "json" -> serialize_json(v)

DecOk(v) == [ok |-> TRUE, item |-> v]
DecErr == [ok |-> FALSE, item |-> Default]

\* bincode::deserialize(&buffer): two fields, trailing bytes allowed.
DecodeBin(b) ==
    IF Len(b) >= 2 THEN DecOk(Config(b[1], b[2])) ELSE DecErr

\* The text grammar shared by the JSON and the RON reader: open, the two
\* fields, one of the closing forms, and nothing after it.
ParseText(s, open, closes) ==
    LET n1 == DigitRun(s, 4)
        n2 == DigitRun(s, 7 + n1)
    IN  IF /\ Len(s) >= 3
           /\ SubSeq(s, 1, 3) = <<open, 97, 58>>
           /\ n1 > 0
           /\ Len(s) >= 6 + n1
           /\ SubSeq(s, 4 + n1, 6 + n1) = <<44, 98, 58>>
           /\ n2 > 0
           /\ SubSeq(s, 7 + n1 + n2, Len(s)) \in closes
        THEN DecOk(Config(Number(SubSeq(s, 4, 3 + n1)),
                          Number(SubSeq(s, 7 + n1, 6 + n1 + n2))))
        ELSE DecErr

\* serde_json::from_str(&buffer)
DecodeJson(s) == ParseText(s, 123, {<<125>>})

\* ron::de::from_str(&buffer): the trailing comma is optional.
DecodeRon(s) == ParseText(s, 40, {<<41>>, <<44, 41>>})

Decode(c, b) ==
    CASE c = "bin" -> DecodeBin(b)
      [] c = "ron" -> DecodeRon(b)
      [] c = "json" -> DecodeJson(b)

\* read_to_string fails on bytes that are not UTF-8; read_to_end reads any.
Utf8Valid(b) == \A i \in 1..Len(b) : b[i] < 128

ReadableAs(c, b) == c = "bin" \/ Utf8Valid(b)


\* ----------------------------------------------------------- file system

\* The path: whether its parent directory exists, what is at the path, the
\* bytes of a regular file and whether this process may read or write it.
Absent(parent) ==
    [parent |-> parent, kind |-> "absent", data |-> <<>>, rd |-> TRUE, wr |-> TRUE]
Dir ==
    [parent |-> TRUE, kind |-> "dir", data |-> <<>>, rd |-> TRUE, wr |-> TRUE]
RegularFile(data, rd, wr) ==
    [parent |-> TRUE, kind |-> "file", data |-> data, rd |-> rd, wr |-> wr]

\* What another program may have left at the path: nothing, text that is no
\* document ("no"), bytes that are not UTF-8, a document cut short, and the
\* encodings of the values under each codec.
Contents ==
    {<<>>, <<110, 111>>, <<255, 255>>, <<123, 97, 58, 48>>}
        \cup {serialize_l(c, v).bytes : c \in Codecs, v \in Values \ {Unserializable}}

FsStates ==
    {Absent(TRUE), Absent(FALSE), Dir}
        \cup {RegularFile(d, r, w) : d \in Contents, r \in BOOLEAN, w \in BOOLEAN}

RECURSIVE Zeros(_)
Zeros(n) == IF n <= 0 THEN <<>> ELSE <<0>> \o Zeros(n - 1)

\* A write of chunk at the handle's offset off: a gap between the end of the
\* file and the offset reads as zeros, bytes after the chunk stay.
Overwrite(data, off, chunk) ==
    LET padded == data \o Zeros(off - Len(data))
    IN  SubSeq(padded, 1, off) \o chunk
            \o SubSeq(data, off + Len(chunk) + 1, Len(data))

\* ---------------------------------------------------------------- results

None == [kind |-> "none", item |-> Default, used |-> FALSE]
Ok(item, used) == [kind |-> "ok", item |-> item, used |-> used]
Err == [kind |-> "err", item |-> Default, used |-> FALSE]
Panic == [kind |-> "panic", item |-> Default, used |-> FALSE]

NoSave == [codec |-> "none", val |-> Default]

Idle ==
    [pc |-> "idle", op |-> "none", codec |-> "bin", val |-> Default,
     buf |-> <<>>, off |-> 0, lret |-> None, ret |-> None,
     \* history of the call, read by the properties only
     pre |-> Absent(TRUE), existed |-> "unknown", opened |-> FALSE,
     decoded |-> "none", failed |-> "none", steps |-> <<>>]

Upd(t, r) == th' = [th EXCEPT ![t] = r]

\* Every thread is between two calls, or between path.exists() and
\* File::open: no file handle is open.  Other programs change the path only
\* then (the caller owns the path while it reads or writes it).
NoHandleOpen == \A t \in Threads : th[t].pc \in {"idle", "open"}

\* ------------------------------------------------------------ environment

EnvWrite ==
    /\ NoHandleOpen
    /\ fs.parent /\ fs.kind # "dir"
    /\ \E d \in Contents : fs' = RegularFile(d, TRUE, TRUE)
    /\ clean' = NoSave
    /\ UNCHANGED <<th, raced>>

EnvRemove ==
    /\ NoHandleOpen
    /\ fs.kind # "absent"
    /\ fs' = Absent(TRUE)
    /\ clean' = NoSave
    /\ UNCHANGED <<th, raced>>

EnvMkdir ==
    /\ NoHandleOpen
    /\ fs.kind = "absent"
    /\ fs' = IF fs.parent THEN Dir ELSE Absent(TRUE)
    /\ clean' = NoSave
    /\ UNCHANGED <<th, raced>>

EnvRmdirParent ==
    /\ NoHandleOpen
    /\ fs.kind = "absent" /\ fs.parent
    /\ fs' = Absent(FALSE)
    /\ UNCHANGED <<th, clean, raced>>

EnvChmod ==
    /\ NoHandleOpen
    /\ fs.kind = "file"
    /\ \E r \in BOOLEAN, w \in BOOLEAN : fs' = [fs EXCEPT !.rd = r, !.wr = w]
    /\ UNCHANGED <<th, clean, raced>>

\* ------------------------------------------------------------------- save

CallSave(t) ==
    /\ th[t].pc = "idle"
    /\ \E c \in Codecs, v \in Values :
        Upd(t, [Idle EXCEPT !.pc = "create", !.op = "save", !.codec = c,
                            !.val = v, !.pre = fs])
    /\ UNCHANGED <<fs, clean, raced>>

\* SaveCreate with the file opened for writing but not truncated.
SaveCreateNoTruncate(t) ==
    /\ th[t].pc = "create"
    /\ IF \/ ~fs.parent
          \/ fs.kind = "dir"
          \/ fs.kind = "file" /\ ~fs.wr
       THEN /\ Upd(t, [th[t] EXCEPT !.pc = "done", !.ret = Err, !.failed = "create"])
            /\ UNCHANGED <<fs, clean, raced>>
       ELSE /\ fs' = IF fs.kind = "file" THEN fs ELSE RegularFile(<<>>, TRUE, TRUE)
            /\ Upd(t, [th[t] EXCEPT !.pc = "encode", !.off = 0,
                                    !.steps = Append(@, "create")])
            /\ clean' = NoSave
            /\ raced' = (raced \/ \E u \in Threads \ {t} :
                                    th[u].pc \in {"encode", "write"})

\* let mut f = File::create(&path)?;
SaveCreate(t) ==
    /\ th[t].pc = "create"
    /\ IF \/ ~fs.parent
          \/ fs.kind = "dir"
          \/ fs.kind = "file" /\ ~fs.wr
       THEN /\ Upd(t, [th[t] EXCEPT !.pc = "done", !.ret = Err, !.failed = "create"])
            /\ UNCHANGED <<fs, clean, raced>>
       ELSE /\ fs' = IF fs.kind = "file" THEN [fs EXCEPT !.data = <<>>]
                     ELSE RegularFile(<<>>, TRUE, TRUE)
            /\ Upd(t, [th[t] EXCEPT !.pc = "encode", !.off = 0,
                                    !.steps = Append(@, "create")])
            /\ clean' = NoSave
            /\ raced' = (raced \/ \E u \in Threads \ {t} :
                                    th[u].pc \in {"encode", "write"})

\* let content = self.serialize_l()?;
SaveEncode(t) ==
    /\ th[t].pc = "encode"
    /\ LET e == serialize_l(th[t].codec, th[t].val)
       IN  Upd(t, IF e.ok
                  THEN [th[t] EXCEPT !.pc = IF Len(e.bytes) = 0 THEN "sync" ELSE "write",
                                     !.buf = e.bytes,
                                     !.steps = Append(@, "encode")]
                  ELSE [th[t] EXCEPT !.pc = "done", !.failed = "encode",
                                     !.ret = IF e.panic THEN Panic ELSE Err])
    /\ UNCHANGED <<fs, clean, raced>>

\* What one write call may accept of n bytes: all of them, or one block.
WriteSizes(n) == {n} \cup {k \in {BlockSize} : k < n}

\* SaveWrite with write in place of write_all: one call, whatever it accepts.
SaveWriteOnce(t) ==
    /\ th[t].pc = "write"
    /\ \E k \in WriteSizes(Len(th[t].buf) - th[t].off) :
        /\ fs' = [fs EXCEPT !.data =
                    Overwrite(@, th[t].off, SubSeq(th[t].buf, th[t].off + 1, th[t].off + k))]
        /\ Upd(t, [th[t] EXCEPT !.off = @ + k, !.pc = "sync",
                                !.steps = Append(@, "write")])
    /\ clean' = NoSave
    /\ UNCHANGED raced

\* f.write_all(content.as_slice())?;  one write call of the loop, which the
\* system may cut short.
SaveWrite(t) ==
    /\ th[t].pc = "write"
    /\ \E k \in WriteSizes(Len(th[t].buf) - th[t].off) :
        /\ fs' = [fs EXCEPT !.data =
                    Overwrite(@, th[t].off, SubSeq(th[t].buf, th[t].off + 1, th[t].off + k))]
        /\ Upd(t, [th[t] EXCEPT !.off = @ + k,
                                !.pc = IF th[t].off + k = Len(th[t].buf)
                                       THEN "sync" ELSE "write",
                                !.steps = IF th[t].off + k = Len(th[t].buf)
                                          THEN Append(@, "write") ELSE @])
    /\ clean' = NoSave
    /\ UNCHANGED raced

\* A write call of the loop fails (no space left, I/O error).
SaveWriteFail(t) ==
    /\ th[t].pc = "write"
    /\ Upd(t, [th[t] EXCEPT !.pc = "done", !.ret = Err, !.failed = "write",
                            !.buf = <<>>, !.off = 0])
    /\ UNCHANGED <<fs, clean, raced>>

\* SaveSync with the result of sync_all dropped.
SaveSyncIgnored(t) ==
    /\ th[t].pc = "sync"
    /\ \E synced \in BOOLEAN :
        /\ Upd(t, [th[t] EXCEPT !.pc = "done", !.ret = Ok(Default, FALSE),
                                !.buf = <<>>, !.off = 0,
                                !.failed = IF synced THEN "none" ELSE "sync",
                                !.steps = IF synced THEN Append(@, "sync") ELSE @])
        /\ clean' = [codec |-> th[t].codec, val |-> th[t].val]
    /\ UNCHANGED <<fs, raced>>

\* match f.sync_all() { Ok(_) => Ok(()), Err(e) => Err(Box::new(e)) }
SaveSync(t) ==
    /\ th[t].pc = "sync"
    /\ \E synced \in BOOLEAN :
        IF synced
        THEN /\ Upd(t, [th[t] EXCEPT !.pc = "done", !.ret = Ok(Default, FALSE),
                                     !.buf = <<>>, !.off = 0,
                                     !.steps = Append(@, "sync")])
             /\ clean' = IF \E u \in Threads \ {t} : th[u].pc \in {"encode", "write", "sync"}
                         THEN NoSave
                         ELSE [codec |-> th[t].codec, val |-> th[t].val]
        ELSE /\ Upd(t, [th[t] EXCEPT !.pc = "done", !.ret = Err, !.failed = "sync",
                                     !.buf = <<>>, !.off = 0])
             /\ UNCHANGED clean
    /\ UNCHANGED <<fs, raced>>

\* The caller takes the result; the thread is free for its next call.
Return(t) ==
    /\ th[t].pc = "done"
    /\ Upd(t, Idle)
    /\ UNCHANGED <<fs, clean, raced>>


\* ------------------------------------------------------------------- load

\* match decode(&buffer) { Ok(item) => item, Err(_e) => T::default() }
DecodeOrDefault(c, b) ==
    LET d == Decode(c, b) IN IF d.ok THEN d.item ELSE Default

\* FetchWrap with the load error handed on, as by the ? operator.
FetchWrapPropagates(l) ==
    IF l.kind = "ok" THEN Ok(l.item, FALSE) ELSE Err

\* fetch_or_default's match on deserialize_l:
\*   Ok(t) => (t, false), Err(_) => (T::default(), true)
FetchWrap(l) ==
    IF l.kind = "ok" THEN Ok(l.item, FALSE) ELSE Ok(Default, TRUE)

\* deserialize_l returns l; a direct call hands it to the caller,
\* fetch_or_default wraps it.
LoadReturn(r, l) ==
    [r EXCEPT !.pc = "done", !.lret = l,
              !.ret = IF r.op = "fetch" THEN FetchWrap(l) ELSE l]

\* A direct call of deserialize_bin / deserialize_json / deserialize_ron.
CallLoad(t) ==
    /\ th[t].pc = "idle"
    /\ \E c \in Codecs :
        Upd(t, [Idle EXCEPT !.pc = "open", !.op = "load", !.codec = c, !.pre = fs])
    /\ UNCHANGED <<fs, clean, raced>>

\* let mut file = File::open(f_path)?;  (a directory opens; reading it fails)
LoadOpen(t) ==
    /\ th[t].pc = "open"
    /\ Upd(t, IF fs.kind = "absent" \/ (fs.kind = "file" /\ ~fs.rd)
              THEN LoadReturn([th[t] EXCEPT !.failed = "open"], Err)
              ELSE [th[t] EXCEPT !.pc = "read", !.opened = TRUE,
                                 !.steps = Append(@, "open")])
    /\ UNCHANGED <<fs, clean, raced>>

\* file.read_to_end(&mut buffer)?;  /  file.read_to_string(&mut buffer)?;
LoadRead(t) ==
    /\ th[t].pc = "read"
    /\ \E ioError \in BOOLEAN :
        Upd(t, IF ioError \/ fs.kind = "dir" \/ ~ReadableAs(th[t].codec, fs.data)
               THEN LoadReturn([th[t] EXCEPT !.failed = "read"], Err)
               ELSE [th[t] EXCEPT !.pc = "decode", !.buf = fs.data,
                                  !.steps = Append(@, "read")])
    /\ UNCHANGED <<fs, clean, raced>>

\* LoadDecode with the decode error handed on, as by the ? operator.
LoadDecodePropagates(t) ==
    /\ th[t].pc = "decode"
    /\ Upd(t, LoadReturn(
                [th[t] EXCEPT !.decoded = IF Decode(th[t].codec, th[t].buf).ok
                                          THEN "ok" ELSE "fail",
                              !.buf = <<>>,
                              !.steps = Append(@, "decode")],
                IF Decode(th[t].codec, th[t].buf).ok
                THEN Ok(Decode(th[t].codec, th[t].buf).item, FALSE)
                ELSE Err))
    /\ UNCHANGED <<fs, clean, raced>>

\* let item: T = match ..deserialize(&buffer) {..}; buffer.clear(); Ok(item)
LoadDecode(t) ==
    /\ th[t].pc = "decode"
    /\ Upd(t, LoadReturn(
                [th[t] EXCEPT !.decoded = IF Decode(th[t].codec, th[t].buf).ok
                                          THEN "ok" ELSE "fail",
                              !.buf = <<>>,
                              !.steps = Append(@, "decode")],
                Ok(DecodeOrDefault(th[t].codec, th[t].buf), FALSE)))
    /\ UNCHANGED <<fs, clean, raced>>

\* ------------------------------------------------------- fetch_or_default

CallFetch(t) ==
    /\ th[t].pc = "idle"
    /\ \E c \in Codecs :
        Upd(t, [Idle EXCEPT !.pc = "exists", !.op = "fetch", !.codec = c, !.pre = fs])
    /\ UNCHANGED <<fs, clean, raced>>

\* FetchExists without the existence check: deserialize_l is always called.
FetchExistsSkipsCheck(t) ==
    /\ th[t].pc = "exists"
    /\ Upd(t, [th[t] EXCEPT !.pc = "open",
                            !.existed = IF fs.kind # "absent" THEN "yes" ELSE "no"])
    /\ UNCHANGED <<fs, clean, raced>>

\* FetchExists that writes the default to a missing path.
FetchExistsCreates(t) ==
    /\ th[t].pc = "exists"
    /\ Upd(t, IF fs.kind # "absent"
              THEN [th[t] EXCEPT !.pc = "open", !.existed = "yes"]
              ELSE [th[t] EXCEPT !.pc = "done", !.existed = "no",
                                 !.ret = Ok(Default, TRUE)])
    /\ fs' = IF fs.kind = "absent" /\ fs.parent
             THEN RegularFile(serialize_l(th[t].codec, Default).bytes, TRUE, TRUE)
             ELSE fs
    /\ UNCHANGED <<clean, raced>>

\* if path.exists() { match T::deserialize_l(&path) {..} } else { (T::default(), true) }
FetchExists(t) ==
    /\ th[t].pc = "exists"
    /\ Upd(t, IF fs.kind # "absent"
              THEN [th[t] EXCEPT !.pc = "open", !.existed = "yes"]
              ELSE [th[t] EXCEPT !.pc = "done", !.existed = "no",
                                 !.ret = Ok(Default, TRUE)])
    /\ UNCHANGED <<fs, clean, raced>>

\* ---------------------------------------------------------- specifications

Init ==
    /\ fs \in FsStates
    /\ th = [t \in Threads |-> Idle]
    /\ clean = NoSave
    /\ raced = FALSE

\* One caller at a time (section 5 of the design: single writer, single
\* reader); other programs change the path between its calls and between
\* fetch_or_default's existence check and its open.
Next ==
    \/ EnvWrite
    \/ EnvRemove
    \/ EnvMkdir
    \/ EnvRmdirParent
    \/ EnvChmod
    \/ CallSave("a")
    \/ SaveCreate("a")
    \/ SaveEncode("a")
    \/ SaveWrite("a")
    \/ SaveWriteFail("a")
    \/ SaveSync("a")
    \/ CallLoad("a")
    \/ LoadOpen("a")
    \/ LoadRead("a")
    \/ LoadDecode("a")
    \/ CallFetch("a")
    \/ FetchExists("a")
    \/ Return("a")

Spec == Init /\ [][Next]_vars

\* Two threads, each making one save call on the path, their steps
\* interleaved in any order.
InitConc ==
    /\ fs = RegularFile(<<110, 111>>, TRUE, TRUE)
    /\ th = [t \in Threads |-> Idle]
    /\ clean = NoSave
    /\ raced = FALSE

NextConc ==
    \E t \in Threads :
        \/ CallSave(t)
        \/ SaveCreate(t)
        \/ SaveEncode(t)
        \/ SaveWrite(t)
        \/ SaveWriteFail(t)
        \/ SaveSync(t)

SpecConc == InitConc /\ [][NextConc]_vars

\* -------------------------------------------------------------- properties

A == th["a"]
B == th["b"]

Returned(r, op) == r.pc = "done" /\ r.op = op

Encoding(r) == serialize_l(r.codec, r.val).bytes

RoundTrips(c, v) ==
    /\ serialize_l(c, v).ok
    /\ Decode(c, serialize_l(c, v).bytes) = DecOk(v)

\* File::create cannot succeed on this state of the path.
CannotCreate(f) == ~f.parent \/ f.kind = "dir" \/ (f.kind = "file" /\ ~f.wr)

\* File::open cannot succeed on this state of the path.
CannotOpen(f) == f.kind = "absent" \/ (f.kind = "file" /\ ~f.rd)

\* C1: for each active codec, when the file exists and is read but its bytes
\* do not decode, fetch_or_default returns (default, true); the flag is false
\* only when the returned value was decoded from the bytes read.
C1_CorruptFileFlagged ==
    Returned(A, "fetch") =>
        /\ A.decoded = "fail" => A.ret = Ok(Default, TRUE)
        /\ (A.ret.kind = "ok" /\ ~A.ret.used) => A.decoded = "ok"

\* C2: when the path does not exist at fetch_or_default's check, the call
\* returns (default, true), opens no file and does not call deserialize_l.
C2_MissingPathDefault ==
    (Returned(A, "fetch") /\ A.existed = "no") =>
        /\ A.ret = Ok(Default, TRUE)
        /\ ~A.opened
        /\ A.lret = None
        /\ A.steps = <<>>

C2_Witness ==
    /\ Returned(A, "fetch")
    /\ A.existed = "no"
    /\ fs.kind = "absent"
    /\ A.ret = Ok(Default, TRUE)

\* A fetch_or_default with the codec of the last save, which returned Ok,
\* with no write to the path since, of a value that round-trips.
FetchAfterSave ==
    /\ Returned(A, "fetch")
    /\ clean # NoSave
    /\ clean.codec = A.codec
    /\ RoundTrips(clean.codec, clean.val)

C6_SaveOkMeansWritten ==
    Returned(A, "save") =>
        /\ A.ret.kind = "ok" =>
            /\ SelectSeq(A.steps, LAMBDA x : x \in {"create", "write", "sync"})
                    = <<"create", "write", "sync">>
            /\ serialize_l(A.codec, A.val).ok
            /\ fs.kind = "file"
            /\ fs.data = Encoding(A)
        /\ A.failed \in {"create", "write", "sync"} => A.ret = Err
        /\ CannotCreate(A.pre) => (A.ret = Err /\ fs = A.pre)
        /\ ~A.pre.parent => (A.ret = Err /\ fs.kind = "absent")

C6_Witness ==
    /\ Returned(A, "save")
    /\ A.ret.kind = "ok"
    /\ A.pre.kind = "file"
    /\ Len(A.pre.data) > Len(fs.data)
    /\ fs.data = Encoding(A)

\* C7: for each active codec, when the value cannot be encoded, save returns
\* Err to its caller; it neither returns Ok nor panics.
C7_EncodeFailureIsErr ==
    (Returned(A, "save") /\ ~serialize_l(A.codec, A.val).ok) => A.ret = Err

\* C8: save encodes before it creates or truncates the file: when encoding
\* fails, the path is exactly as it was before the call.
C8_EncodeFailureLeavesFile ==
    (Returned(A, "save") /\ ~serialize_l(A.codec, A.val).ok) => fs = A.pre

BothSavedOk ==
    /\ Returned(A, "save") /\ A.ret.kind = "ok"
    /\ Returned(B, "save") /\ B.ret.kind = "ok"

\* C9 as stated: after two concurrent saves that both return Ok, the file
\* holds exactly the encoding of one of the two values.
C9_LastWriterWins_Stated ==
    BothSavedOk => fs.data \in {Encoding(A), Encoding(B)}

ByteAt(s, i) == IF i <= Len(s) THEN {s[i]} ELSE {}

\* C9 as amended: after two concurrent saves that both return Ok, the file
\* is no longer than the longer encoding and each of its bytes is the byte
\* of one of the two encodings at that position, or a zero filling a gap;
\* it is exactly one of the two encodings when neither create/truncate ran
\* while the other save was between its own create and its last write.
C9_ConcurrentSaves ==
    BothSavedOk =>
        /\ fs.kind = "file"
        /\ Len(fs.data) <= Len(Encoding(A)) \/ Len(fs.data) <= Len(Encoding(B))
        /\ \A i \in 1..Len(fs.data) :
            fs.data[i] \in ByteAt(Encoding(A), i) \cup ByteAt(Encoding(B), i) \cup {0}
        /\ ~raced => fs.data \in {Encoding(A), Encoding(B)}

\* A mixture: bytes of both encodings around a zero-filled gap.
C9_Witness ==
    /\ BothSavedOk
    /\ raced
    /\ fs.data \notin {Encoding(A), Encoding(B)}
    /\ \E i \in 1..Len(fs.data) :
        fs.data[i] = 0 /\ 0 \notin ByteAt(Encoding(A), i) \cup ByteAt(Encoding(B), i)

\* C10: no step of fetch_or_default or of a load changes the path: a missing
\* file is not created, a corrupt file is not overwritten.
C10_ReadsLeaveFile ==
    [][(A' # A /\ (A.op \in {"fetch", "load"} \/ A'.op \in {"fetch", "load"}))
            => fs' = fs]_vars

\* A corrupt file, fetched, still holds its bytes.
C10_Witness ==
    /\ Returned(A, "fetch")
    /\ A.decoded = "fail"
    /\ fs = A.pre
    /\ fs.data = <<110, 111>>

=============================================================================
